---- MODULE Spec2Model ----
(***************************************************************************)
(* Model of forgeloop_cli: the StepTracker class (progress tracking) and   *)
(* the module-level functions _github_token, _github_auth_headers,        *)
(* _parse_rate_limit_headers and _format_rate_limit_error.                 *)
(*                                                                         *)
(* Python strings are modelled as sequences of one-character strings, so   *)
(* that truthiness ("if detail:"), str.strip() and f-string concatenation  *)
(* are computed rather than assumed.  Fixed markup fragments of the        *)
(* f-strings in render() are kept as single tokens of such a sequence; the *)
(* two non-ASCII glyphs are written by their code points ("U+25CF" is the  *)
(* filled circle, "U+25CB" the hollow circle).                             *)
(*                                                                         *)
(* A refresh callback is a function object (always truthy); what one       *)
(* invocation of it does is an input of the call that invokes it: it       *)
(* returns, raises an instance of Exception, or raises an instance of      *)
(* BaseException that is not an Exception (KeyboardInterrupt, SystemExit). *)
(***************************************************************************)
EXTENDS Integers, Sequences, FiniteSets, TLC

VARIABLES title, steps, refresh_cb, call, prev, outcome, cb_seen

vars == <<title, steps, refresh_cb, call, prev, outcome, cb_seen>>

-----------------------------------------------------------------------------
(* Bounds of the model                                                     *)

\* longest text of a detail string a caller passes
MaxText == 1

-----------------------------------------------------------------------------
(* Input domains                                                           *)

\* Python's None
None == "None"

\* step keys the caller uses
Keys == {<<"a">>, <<"b">>}

\* labels passed to add(): a label different from every key, and the key itself
AddLabels(key) == {<<"L">>, key}

\* the text of n characters
Text(n) == [i \in 1..n |-> "d"]

\* detail arguments: the empty string (also the default of an omitted
\* argument), a blank string, and texts padded with a blank on both sides
Details == {<<>>, <<" ">>} \cup {<<" ">> \o Text(n) \o <<" ">> : n \in 1..MaxText}

Titles == {<<"T">>}

\* callbacks a caller may attach (function objects), or None to detach
Callbacks == {"cb"}

\* what one invocation of the callback does
CbBehaviours == {"returns", "raises_Exception", "raises_BaseException"}

\* the behaviours to enumerate for a call made while cb is attached: with no
\* callback nothing is invoked and one value stands for all
BehavioursOf(cb) == IF cb = None THEN {"returns"} ELSE CbBehaviours

\* StepTracker.__init__: self.status_order
status_order == [pending |-> 0, running |-> 1, done |-> 2, error |-> 3, skipped |-> 4]

Statuses == DOMAIN status_order

-----------------------------------------------------------------------------
(* Helpers that model Python built-ins                                     *)

\* characters str.strip() removes: those for which str.isspace() holds.  A
\* character outside printable ASCII is written as the token of its code
\* point ("U+00A0"), except tab, line feed, carriage return and form feed.
Whitespace ==
    {"\t", "\n", "U+000B", "\f", "\r", "U+001C", "U+001D", "U+001E",
     "U+001F", " ", "U+0085", "U+00A0", "U+1680", "U+2000", "U+2001",
     "U+2002", "U+2003", "U+2004", "U+2005", "U+2006", "U+2007", "U+2008",
     "U+2009", "U+200A", "U+2028", "U+2029", "U+202F", "U+205F", "U+3000"}

\* bool(s) of a str
Truthy(s) == Len(s) > 0

RECURSIVE LStrip(_)
LStrip(s) == IF s # <<>> /\ Head(s) \in Whitespace THEN LStrip(Tail(s)) ELSE s

RECURSIVE RStrip(_)
RStrip(s) ==
    IF s # <<>> /\ s[Len(s)] \in Whitespace THEN RStrip(SubSeq(s, 1, Len(s) - 1)) ELSE s

\* str.strip()
Strip(s) == RStrip(LStrip(s))

\* body applied to the value of v: a local variable that is assigned once
\* and read many times (the value is computed once)
LetIn(v, body(_)) == CHOOSE r \in {body(x) : x \in {v}} : TRUE

\* [s["key"] for s in self.steps]
KeysOf(st) == [i \in 1..Len(st) |-> st[i].key]

\* key in [s["key"] for s in self.steps]
HasKey(st, key) == \E i \in 1..Len(st) : st[i].key = key

\* index of the first step the loop of _update matches
FirstIndex(st, key) ==
    CHOOSE i \in 1..Len(st) : st[i].key = key /\ \A j \in 1..(i - 1) : st[j].key # key

-----------------------------------------------------------------------------
(* StepTracker                                                             *)

\* one invocation of the callback: the step list it was invoked on and what it did
Invocation(st, beh) == [saw |-> st, did |-> beh]

\* _maybe_refresh, called when the step list is st; beh is what the callback
\* does if invoked.  seen: the invocations made; raised: an exception leaves
\* _maybe_refresh ("except Exception" catches instances of Exception only).
MaybeRefresh(cb, st, beh) ==
    IF cb # None
    THEN [seen |-> <<Invocation(st, beh)>>, raised |-> (beh = "raises_BaseException")]
    ELSE [seen |-> <<>>, raised |-> FALSE]

\* add without the membership test
AddCall_always_appends(st, cb, key, label, beh) ==
    LET new == Append(st, [key |-> key, label |-> label,
                           status |-> "pending", detail |-> <<>>])
        r == MaybeRefresh(cb, new, beh)
    IN [steps |-> new, seen |-> r.seen, raised |-> r.raised]

\* add that re-registers a known key: takes the new label, back to pending
AddCall_reregisters(st, cb, key, label, beh) ==
    LET new == IF HasKey(st, key)
               THEN [st EXCEPT ![FirstIndex(st, key)].label = label,
                               ![FirstIndex(st, key)].status = "pending"]
               ELSE Append(st, [key |-> key, label |-> label,
                                status |-> "pending", detail |-> <<>>])
        r == MaybeRefresh(cb, new, beh)
    IN [steps |-> new, seen |-> r.seen, raised |-> r.raised]

\* add that refreshes before it appends
AddCall_refreshes_first(st, cb, key, label, beh) ==
    IF ~HasKey(st, key)
    THEN LET r == MaybeRefresh(cb, st, beh)
         IN [steps |-> Append(st, [key |-> key, label |-> label,
                                   status |-> "pending", detail |-> <<>>]),
             seen |-> r.seen, raised |-> r.raised]
    ELSE [steps |-> st, seen |-> <<>>, raised |-> FALSE]

\* add that puts a known step back to pending (keeps label and detail)
AddCall_resets_status(st, cb, key, label, beh) ==
    IF ~HasKey(st, key)
    THEN LET new == Append(st, [key |-> key, label |-> label,
                                status |-> "pending", detail |-> <<>>])
             r == MaybeRefresh(cb, new, beh)
         IN [steps |-> new, seen |-> r.seen, raised |-> r.raised]
    ELSE [steps |-> [st EXCEPT ![FirstIndex(st, key)].status = "pending"],
          seen |-> <<>>, raised |-> FALSE]

\* add, whole: append and refresh only when the key is new
AddCall(st, cb, key, label, beh) ==
    IF ~HasKey(st, key)
    THEN LET new == Append(st, [key |-> key, label |-> label,
                                status |-> "pending", detail |-> <<>>])
             r == MaybeRefresh(cb, new, beh)
         IN [steps |-> new, seen |-> r.seen, raised |-> r.raised]
    ELSE [steps |-> st, seen |-> <<>>, raised |-> FALSE]

\* _update that enforces pending -> running -> {done, error, skipped}
UpdateSteps_enforces_order(st, key, status, detail) ==
    IF HasKey(st, key)
    THEN LET i == FirstIndex(st, key)
             allowed == \/ st[i].status = "pending"
                        \/ st[i].status = "running" /\ status # "running"
         IN IF allowed
            THEN [st EXCEPT ![i].status = status,
                            ![i].detail = IF Truthy(detail) THEN detail ELSE @]
            ELSE st
    ELSE Append(st, [key |-> key, label |-> key, status |-> status, detail |-> detail])

\* _update without "if detail:": the detail argument always overwrites
UpdateSteps_always_overwrites(st, key, status, detail) ==
    IF HasKey(st, key)
    THEN LET i == FirstIndex(st, key)
         IN [st EXCEPT ![i].status = status, ![i].detail = detail]
    ELSE Append(st, [key |-> key, label |-> key, status |-> status, detail |-> detail])

\* _update as remove-and-append: an updated step moves to the end
UpdateSteps_reappends(st, key, status, detail) ==
    IF HasKey(st, key)
    THEN LET i == FirstIndex(st, key)
             upd == [st[i] EXCEPT !.status = status,
                                  !.detail = IF Truthy(detail) THEN detail ELSE @]
         IN Append(SubSeq(st, 1, i - 1) \o SubSeq(st, i + 1, Len(st)), upd)
    ELSE Append(st, [key |-> key, label |-> key, status |-> status, detail |-> detail])

\* _update that also writes label = key into the step it updates
UpdateSteps_relabels(st, key, status, detail) ==
    IF HasKey(st, key)
    THEN LET i == FirstIndex(st, key)
         IN [st EXCEPT ![i].status = status,
                       ![i].label = key,
                       ![i].detail = IF Truthy(detail) THEN detail ELSE @]
    ELSE Append(st, [key |-> key, label |-> key, status |-> status, detail |-> detail])

\* the list mutation of _update
UpdateSteps(st, key, status, detail) ==
    IF HasKey(st, key)
    THEN LET i == FirstIndex(st, key)
         IN [st EXCEPT ![i].status = status,
                       ![i].detail = IF Truthy(detail) THEN detail ELSE @]
    ELSE Append(st, [key |-> key, label |-> key, status |-> status, detail |-> detail])

\* _update that refreshes before it mutates
UpdateCall_refreshes_first(st, cb, key, status, detail, beh) ==
    LET r == MaybeRefresh(cb, st, beh)
    IN [steps |-> UpdateSteps(st, key, status, detail), seen |-> r.seen, raised |-> r.raised]

\* _update, whole: mutation, then refresh
UpdateCall(st, cb, key, status, detail, beh) ==
    LET new == UpdateSteps(st, key, status, detail)
        r == MaybeRefresh(cb, new, beh)
    IN [steps |-> new, seen |-> r.seen, raised |-> r.raised]

\* status each public transition method passes to _update
TransitionStatus ==
    [start |-> "running", complete |-> "done", error |-> "error", skip |-> "skipped"]

Transitions == DOMAIN TransitionStatus

\* the symbol chosen by render for a status
Symbol(status) ==
    CASE status = "done" -> <<"[green]", "U+25CF", "[/green]">>
      [] status = "pending" -> <<"[green dim]", "U+25CB", "[/green dim]">>
      [] status = "running" -> <<"[cyan]", "U+25CB", "[/cyan]">>
      [] status = "error" -> <<"[red]", "U+25CF", "[/red]">>
      [] status = "skipped" -> <<"[yellow]", "U+25CB", "[/yellow]">>
      [] OTHER -> <<" ">>

\* the line render builds for one step
Line(step) ==
    LET label == step.label
        detail_text == IF Truthy(step.detail) THEN Strip(step.detail) ELSE <<>>
        status == step.status
        symbol == Symbol(status)
    IN IF status = "pending"
       THEN IF Truthy(detail_text)
            THEN symbol \o <<" ", "[bright_black]">> \o label \o <<" ", "(">>
                   \o detail_text \o <<")", "[/bright_black]">>
            ELSE symbol \o <<" ", "[bright_black]">> \o label \o <<"[/bright_black]">>
       ELSE IF Truthy(detail_text)
            THEN symbol \o <<" ", "[white]">> \o label \o <<"[/white]", " ", "[bright_black]", "(">>
                   \o detail_text \o <<")", "[/bright_black]">>
            ELSE symbol \o <<" ", "[white]">> \o label \o <<"[/white]">>

\* the rich Tree render returns: a root label, a guide style, one child per tree.add
Render(ttl, st) ==
    [label |-> <<"[cyan]">> \o ttl \o <<"[/cyan]">>,
     guide_style |-> "grey50",
     children |-> [i \in 1..Len(st) |-> Line(st[i])]]

\* render that stores the stripped detail back into each step
RenderCall_strips_in_place(ttl, st, cb) ==
    [steps |-> [i \in 1..Len(st) |-> [st[i] EXCEPT !.detail = Strip(@)]],
     cb |-> cb, seen |-> <<>>, value |-> <<Render(ttl, st)>>]

\* what render does to the tracker and what it returns
RenderCall(ttl, st, cb) ==
    [steps |-> st, cb |-> cb, seen |-> <<>>, value |-> <<Render(ttl, st)>>]

-----------------------------------------------------------------------------
(* The state machine: one action per public method                         *)

\* The tracker's fields are title, steps and refresh_cb.  The other variables
\* record the last call: call is the method and its arguments, prev the status
\* the step of call.key had when the call was made, outcome whether the call
\* raised and what it returned, cb_seen the invocations of the callback made
\* during the call.

\* the record of the last call made on the tracker
CallRec(op, key, arg) == [op |-> op, key |-> key, arg |-> arg]

\* outcome of a call: it raised, or it returned value (<<>> stands for None)
Outcome(raised, value) == [raised |-> raised, value |-> value]

\* status of the step with this key, "absent" when there is none
StatusOf(st, key) == IF HasKey(st, key) THEN st[FirstIndex(st, key)].status ELSE "absent"

\* StepTracker(title)
Init ==
    /\ title \in Titles
    /\ steps = <<>>
    /\ refresh_cb = None
    /\ call = CallRec("__init__", <<>>, <<>>)
    /\ prev = None
    /\ outcome = Outcome(FALSE, <<>>)
    /\ cb_seen = <<>>

attach_refresh(cb) ==
    /\ refresh_cb' = cb
    /\ call' = CallRec("attach_refresh", <<>>, <<>>)
    /\ prev' = None
    /\ outcome' = Outcome(FALSE, <<>>)
    /\ cb_seen' = <<>>
    /\ UNCHANGED <<title, steps>>

add(key, label, beh) ==
    LET r == AddCall(steps, refresh_cb, key, label, beh)
    IN /\ steps' = r.steps
       /\ cb_seen' = r.seen
       /\ outcome' = Outcome(r.raised, <<>>)
       /\ call' = CallRec("add", key, label)
       /\ prev' = StatusOf(steps, key)
       /\ UNCHANGED <<title, refresh_cb>>

\* start, complete, error, skip
transition(op, key, detail, beh) ==
    LET r == UpdateCall(steps, refresh_cb, key, TransitionStatus[op], detail, beh)
    IN /\ steps' = r.steps
       /\ cb_seen' = r.seen
       /\ outcome' = Outcome(r.raised, <<>>)
       /\ call' = CallRec(op, key, detail)
       /\ prev' = StatusOf(steps, key)
       /\ UNCHANGED <<title, refresh_cb>>

render ==
    LET r == RenderCall(title, steps, refresh_cb)
    IN /\ steps' = r.steps
       /\ refresh_cb' = r.cb
       /\ cb_seen' = r.seen
       /\ outcome' = Outcome(FALSE, r.value)
       /\ call' = CallRec("render", <<>>, <<>>)
       /\ prev' = None
       /\ UNCHANGED title

Next ==
    \/ \E cb \in Callbacks \cup {None} : attach_refresh(cb)
    \/ \E key \in Keys, beh \in BehavioursOf(refresh_cb) :
          \E label \in AddLabels(key) : add(key, label, beh)
    \/ \E op \in Transitions, key \in Keys, detail \in Details, beh \in BehavioursOf(refresh_cb) :
          transition(op, key, detail, beh)
    \/ render

Spec == Init /\ [][Next]_vars

-----------------------------------------------------------------------------
(* Module-level functions: token resolution and rate-limit diagnostics     *)

\* An optional str (str | None, the result of os.getenv) is a sequence of at
\* most one string: <<>> is None, <<s>> is the str s.
Absent == <<>>

Some(s) == <<s>>

\* bool(x) of an optional str: None and "" are false
TruthyOpt(x) == x # Absent /\ Truthy(x[1])

\* a or b on optional strs
PyOr(a, b) == IF TruthyOpt(a) THEN a ELSE b

\* what one source of the token may hold: nothing, "", a blank, the token, the
\* token with blanks around it, the token with other whitespace around it
SourceValues(tok) ==
    {Absent, Some(<<>>), Some(<<" ">>), Some(tok), Some(<<" ">> \o tok \o <<" ">>),
     Some(<<"\r", "\f">> \o tok \o <<"U+00A0", "\n">>)}

\* values of the --github-token argument
CliTokens == SourceValues(<<"a", "b", "c">>)

\* values of the environment variable GH_TOKEN
GhTokens == SourceValues(<<"x", "y", "z">>)

\* values of the environment variable GITHUB_TOKEN
GithubTokens == SourceValues(<<"g", "h", "i">>)

\* _github_token: gh and github are os.getenv("GH_TOKEN"), os.getenv("GITHUB_TOKEN")
GithubToken(cli_token, gh, github) ==
    LET chosen == PyOr(PyOr(PyOr(cli_token, gh), github), Some(<<>>))
        stripped == Some(Strip(chosen[1]))
    IN PyOr(stripped, Absent)

\* _github_auth_headers: a dict is a function on its keys, {} the empty one
GithubAuthHeaders(cli_token, gh, github) ==
    LET token == GithubToken(cli_token, gh, github)
    IN IF TruthyOpt(token)
       THEN [k \in {"Authorization"} |-> <<"Bearer ">> \o token[1]]
       ELSE <<>>

\* the ASCII decimal digits, digit d at position d + 1
Digits == <<"0", "1", "2", "3", "4", "5", "6", "7", "8", "9">>

\* The decimal digits int() reads are the characters of category Nd in the
\* Unicode database of the interpreter that runs the script (requires-python
\* is >= 3.11): unicodedata.unidata_version is 14.0.0 under Python 3.11,
\* 15.0.0 under 3.12 and 15.1.0 under 3.13.
UnidataVersions == {"14.0.0", "15.0.0", "15.1.0"}

\* the decimal digits of Unicode 14.0, in runs of ten that hold the digits
\* 0 to 9 in order
DecimalDigits14 ==
    {<<"0", "1", "2", "3", "4", "5", "6", "7", "8", "9">>,
     <<"U+0660", "U+0661", "U+0662", "U+0663", "U+0664", "U+0665", "U+0666", "U+0667", "U+0668", "U+0669">>,
     <<"U+06F0", "U+06F1", "U+06F2", "U+06F3", "U+06F4", "U+06F5", "U+06F6", "U+06F7", "U+06F8", "U+06F9">>,
     <<"U+07C0", "U+07C1", "U+07C2", "U+07C3", "U+07C4", "U+07C5", "U+07C6", "U+07C7", "U+07C8", "U+07C9">>,
     <<"U+0966", "U+0967", "U+0968", "U+0969", "U+096A", "U+096B", "U+096C", "U+096D", "U+096E", "U+096F">>,
     <<"U+09E6", "U+09E7", "U+09E8", "U+09E9", "U+09EA", "U+09EB", "U+09EC", "U+09ED", "U+09EE", "U+09EF">>,
     <<"U+0A66", "U+0A67", "U+0A68", "U+0A69", "U+0A6A", "U+0A6B", "U+0A6C", "U+0A6D", "U+0A6E", "U+0A6F">>,
     <<"U+0AE6", "U+0AE7", "U+0AE8", "U+0AE9", "U+0AEA", "U+0AEB", "U+0AEC", "U+0AED", "U+0AEE", "U+0AEF">>,
     <<"U+0B66", "U+0B67", "U+0B68", "U+0B69", "U+0B6A", "U+0B6B", "U+0B6C", "U+0B6D", "U+0B6E", "U+0B6F">>,
     <<"U+0BE6", "U+0BE7", "U+0BE8", "U+0BE9", "U+0BEA", "U+0BEB", "U+0BEC", "U+0BED", "U+0BEE", "U+0BEF">>,
     <<"U+0C66", "U+0C67", "U+0C68", "U+0C69", "U+0C6A", "U+0C6B", "U+0C6C", "U+0C6D", "U+0C6E", "U+0C6F">>,
     <<"U+0CE6", "U+0CE7", "U+0CE8", "U+0CE9", "U+0CEA", "U+0CEB", "U+0CEC", "U+0CED", "U+0CEE", "U+0CEF">>,
     <<"U+0D66", "U+0D67", "U+0D68", "U+0D69", "U+0D6A", "U+0D6B", "U+0D6C", "U+0D6D", "U+0D6E", "U+0D6F">>,
     <<"U+0DE6", "U+0DE7", "U+0DE8", "U+0DE9", "U+0DEA", "U+0DEB", "U+0DEC", "U+0DED", "U+0DEE", "U+0DEF">>,
     <<"U+0E50", "U+0E51", "U+0E52", "U+0E53", "U+0E54", "U+0E55", "U+0E56", "U+0E57", "U+0E58", "U+0E59">>,
     <<"U+0ED0", "U+0ED1", "U+0ED2", "U+0ED3", "U+0ED4", "U+0ED5", "U+0ED6", "U+0ED7", "U+0ED8", "U+0ED9">>,
     <<"U+0F20", "U+0F21", "U+0F22", "U+0F23", "U+0F24", "U+0F25", "U+0F26", "U+0F27", "U+0F28", "U+0F29">>,
     <<"U+1040", "U+1041", "U+1042", "U+1043", "U+1044", "U+1045", "U+1046", "U+1047", "U+1048", "U+1049">>,
     <<"U+1090", "U+1091", "U+1092", "U+1093", "U+1094", "U+1095", "U+1096", "U+1097", "U+1098", "U+1099">>,
     <<"U+17E0", "U+17E1", "U+17E2", "U+17E3", "U+17E4", "U+17E5", "U+17E6", "U+17E7", "U+17E8", "U+17E9">>,
     <<"U+1810", "U+1811", "U+1812", "U+1813", "U+1814", "U+1815", "U+1816", "U+1817", "U+1818", "U+1819">>,
     <<"U+1946", "U+1947", "U+1948", "U+1949", "U+194A", "U+194B", "U+194C", "U+194D", "U+194E", "U+194F">>,
     <<"U+19D0", "U+19D1", "U+19D2", "U+19D3", "U+19D4", "U+19D5", "U+19D6", "U+19D7", "U+19D8", "U+19D9">>,
     <<"U+1A80", "U+1A81", "U+1A82", "U+1A83", "U+1A84", "U+1A85", "U+1A86", "U+1A87", "U+1A88", "U+1A89">>,
     <<"U+1A90", "U+1A91", "U+1A92", "U+1A93", "U+1A94", "U+1A95", "U+1A96", "U+1A97", "U+1A98", "U+1A99">>,
     <<"U+1B50", "U+1B51", "U+1B52", "U+1B53", "U+1B54", "U+1B55", "U+1B56", "U+1B57", "U+1B58", "U+1B59">>,
     <<"U+1BB0", "U+1BB1", "U+1BB2", "U+1BB3", "U+1BB4", "U+1BB5", "U+1BB6", "U+1BB7", "U+1BB8", "U+1BB9">>,
     <<"U+1C40", "U+1C41", "U+1C42", "U+1C43", "U+1C44", "U+1C45", "U+1C46", "U+1C47", "U+1C48", "U+1C49">>,
     <<"U+1C50", "U+1C51", "U+1C52", "U+1C53", "U+1C54", "U+1C55", "U+1C56", "U+1C57", "U+1C58", "U+1C59">>,
     <<"U+A620", "U+A621", "U+A622", "U+A623", "U+A624", "U+A625", "U+A626", "U+A627", "U+A628", "U+A629">>,
     <<"U+A8D0", "U+A8D1", "U+A8D2", "U+A8D3", "U+A8D4", "U+A8D5", "U+A8D6", "U+A8D7", "U+A8D8", "U+A8D9">>,
     <<"U+A900", "U+A901", "U+A902", "U+A903", "U+A904", "U+A905", "U+A906", "U+A907", "U+A908", "U+A909">>,
     <<"U+A9D0", "U+A9D1", "U+A9D2", "U+A9D3", "U+A9D4", "U+A9D5", "U+A9D6", "U+A9D7", "U+A9D8", "U+A9D9">>,
     <<"U+A9F0", "U+A9F1", "U+A9F2", "U+A9F3", "U+A9F4", "U+A9F5", "U+A9F6", "U+A9F7", "U+A9F8", "U+A9F9">>,
     <<"U+AA50", "U+AA51", "U+AA52", "U+AA53", "U+AA54", "U+AA55", "U+AA56", "U+AA57", "U+AA58", "U+AA59">>,
     <<"U+ABF0", "U+ABF1", "U+ABF2", "U+ABF3", "U+ABF4", "U+ABF5", "U+ABF6", "U+ABF7", "U+ABF8", "U+ABF9">>,
     <<"U+FF10", "U+FF11", "U+FF12", "U+FF13", "U+FF14", "U+FF15", "U+FF16", "U+FF17", "U+FF18", "U+FF19">>,
     <<"U+104A0", "U+104A1", "U+104A2", "U+104A3", "U+104A4", "U+104A5", "U+104A6", "U+104A7", "U+104A8", "U+104A9">>,
     <<"U+10D30", "U+10D31", "U+10D32", "U+10D33", "U+10D34", "U+10D35", "U+10D36", "U+10D37", "U+10D38", "U+10D39">>,
     <<"U+11066", "U+11067", "U+11068", "U+11069", "U+1106A", "U+1106B", "U+1106C", "U+1106D", "U+1106E", "U+1106F">>,
     <<"U+110F0", "U+110F1", "U+110F2", "U+110F3", "U+110F4", "U+110F5", "U+110F6", "U+110F7", "U+110F8", "U+110F9">>,
     <<"U+11136", "U+11137", "U+11138", "U+11139", "U+1113A", "U+1113B", "U+1113C", "U+1113D", "U+1113E", "U+1113F">>,
     <<"U+111D0", "U+111D1", "U+111D2", "U+111D3", "U+111D4", "U+111D5", "U+111D6", "U+111D7", "U+111D8", "U+111D9">>,
     <<"U+112F0", "U+112F1", "U+112F2", "U+112F3", "U+112F4", "U+112F5", "U+112F6", "U+112F7", "U+112F8", "U+112F9">>,
     <<"U+11450", "U+11451", "U+11452", "U+11453", "U+11454", "U+11455", "U+11456", "U+11457", "U+11458", "U+11459">>,
     <<"U+114D0", "U+114D1", "U+114D2", "U+114D3", "U+114D4", "U+114D5", "U+114D6", "U+114D7", "U+114D8", "U+114D9">>,
     <<"U+11650", "U+11651", "U+11652", "U+11653", "U+11654", "U+11655", "U+11656", "U+11657", "U+11658", "U+11659">>,
     <<"U+116C0", "U+116C1", "U+116C2", "U+116C3", "U+116C4", "U+116C5", "U+116C6", "U+116C7", "U+116C8", "U+116C9">>,
     <<"U+11730", "U+11731", "U+11732", "U+11733", "U+11734", "U+11735", "U+11736", "U+11737", "U+11738", "U+11739">>,
     <<"U+118E0", "U+118E1", "U+118E2", "U+118E3", "U+118E4", "U+118E5", "U+118E6", "U+118E7", "U+118E8", "U+118E9">>,
     <<"U+11950", "U+11951", "U+11952", "U+11953", "U+11954", "U+11955", "U+11956", "U+11957", "U+11958", "U+11959">>,
     <<"U+11C50", "U+11C51", "U+11C52", "U+11C53", "U+11C54", "U+11C55", "U+11C56", "U+11C57", "U+11C58", "U+11C59">>,
     <<"U+11D50", "U+11D51", "U+11D52", "U+11D53", "U+11D54", "U+11D55", "U+11D56", "U+11D57", "U+11D58", "U+11D59">>,
     <<"U+11DA0", "U+11DA1", "U+11DA2", "U+11DA3", "U+11DA4", "U+11DA5", "U+11DA6", "U+11DA7", "U+11DA8", "U+11DA9">>,
     <<"U+16A60", "U+16A61", "U+16A62", "U+16A63", "U+16A64", "U+16A65", "U+16A66", "U+16A67", "U+16A68", "U+16A69">>,
     <<"U+16AC0", "U+16AC1", "U+16AC2", "U+16AC3", "U+16AC4", "U+16AC5", "U+16AC6", "U+16AC7", "U+16AC8", "U+16AC9">>,
     <<"U+16B50", "U+16B51", "U+16B52", "U+16B53", "U+16B54", "U+16B55", "U+16B56", "U+16B57", "U+16B58", "U+16B59">>,
     <<"U+1D7CE", "U+1D7CF", "U+1D7D0", "U+1D7D1", "U+1D7D2", "U+1D7D3", "U+1D7D4", "U+1D7D5", "U+1D7D6", "U+1D7D7">>,
     <<"U+1D7D8", "U+1D7D9", "U+1D7DA", "U+1D7DB", "U+1D7DC", "U+1D7DD", "U+1D7DE", "U+1D7DF", "U+1D7E0", "U+1D7E1">>,
     <<"U+1D7E2", "U+1D7E3", "U+1D7E4", "U+1D7E5", "U+1D7E6", "U+1D7E7", "U+1D7E8", "U+1D7E9", "U+1D7EA", "U+1D7EB">>,
     <<"U+1D7EC", "U+1D7ED", "U+1D7EE", "U+1D7EF", "U+1D7F0", "U+1D7F1", "U+1D7F2", "U+1D7F3", "U+1D7F4", "U+1D7F5">>,
     <<"U+1D7F6", "U+1D7F7", "U+1D7F8", "U+1D7F9", "U+1D7FA", "U+1D7FB", "U+1D7FC", "U+1D7FD", "U+1D7FE", "U+1D7FF">>,
     <<"U+1E140", "U+1E141", "U+1E142", "U+1E143", "U+1E144", "U+1E145", "U+1E146", "U+1E147", "U+1E148", "U+1E149">>,
     <<"U+1E2F0", "U+1E2F1", "U+1E2F2", "U+1E2F3", "U+1E2F4", "U+1E2F5", "U+1E2F6", "U+1E2F7", "U+1E2F8", "U+1E2F9">>,
     <<"U+1E950", "U+1E951", "U+1E952", "U+1E953", "U+1E954", "U+1E955", "U+1E956", "U+1E957", "U+1E958", "U+1E959">>,
     <<"U+1FBF0", "U+1FBF1", "U+1FBF2", "U+1FBF3", "U+1FBF4", "U+1FBF5", "U+1FBF6", "U+1FBF7", "U+1FBF8", "U+1FBF9">>}

\* the decimal digits Unicode 15.0 added (15.1 added none)
DecimalDigits15 ==
    {<<"U+11F50", "U+11F51", "U+11F52", "U+11F53", "U+11F54", "U+11F55", "U+11F56", "U+11F57", "U+11F58", "U+11F59">>,
     <<"U+1E4F0", "U+1E4F1", "U+1E4F2", "U+1E4F3", "U+1E4F4", "U+1E4F5", "U+1E4F6", "U+1E4F7", "U+1E4F8", "U+1E4F9">>}

\* the decimal digits of the interpreter whose Unicode database is unidata
DecimalDigits(unidata) ==
    IF unidata = "14.0.0" THEN DecimalDigits14 ELSE DecimalDigits14 \cup DecimalDigits15

IsDigit(c, unidata) ==
    c \in {Digits[d] : d \in 1..10} \/ \E b \in DecimalDigits(unidata) : \E d \in 1..10 : b[d] = c

DigitValue(c, unidata) ==
    (CHOOSE d \in 1..10 : \E b \in DecimalDigits(unidata) : b[d] = c) - 1

\* the value of an ASCII digit
AsciiDigitValue(c) == (CHOOSE d \in 1..10 : Digits[d] = c) - 1

\* A Python int has no width: it is kept as its sign and the ASCII digits of
\* its magnitude without leading zeros (zero is the digit 0 with no sign).
PyInt(neg, digits) == [neg |-> neg, digits |-> digits]

\* bool(i) of an int
PyIntTruthy(i) == i.digits # <<"0">>

\* str(i) of an int, as an f-string inserts it
PyIntStr(i) == (IF i.neg THEN <<"-">> ELSE <<>>) \o i.digits

\* the whitespace int() skips around the literal: the characters of
\* str.isspace() without the four separators U+001C to U+001F
IntWhitespace == Whitespace \ {"U+001C", "U+001D", "U+001E", "U+001F"}

RECURSIVE IntLStrip(_)
IntLStrip(s) == IF s # <<>> /\ Head(s) \in IntWhitespace THEN IntLStrip(Tail(s)) ELSE s

RECURSIVE IntRStrip(_)
IntRStrip(s) ==
    IF s # <<>> /\ s[Len(s)] \in IntWhitespace
    THEN IntRStrip(SubSeq(s, 1, Len(s) - 1)) ELSE s

\* sys.get_int_max_str_digits(): the most digits int() converts
int_max_str_digits == 4300

\* the literal int(s) reads: s without surrounding whitespace, split into an
\* optional sign and the rest
IntBody(s) ==
    LET t == IntRStrip(IntLStrip(s))
    IN IF t # <<>> /\ t[1] \in {"+", "-"}
       THEN [neg |-> t[1] = "-", digits |-> Tail(t)]
       ELSE [neg |-> FALSE, digits |-> t]

\* int(s) returns (otherwise it raises ValueError): the rest is decimal
\* digits, with single underscores allowed between two digits, and has no
\* more digits than the limit
IntOk(s, unidata) ==
    LET t == IntBody(s).digits
        n == Len(t)
    IN /\ n > 0
       /\ Cardinality({i \in 1..n : t[i] # "_"}) <= int_max_str_digits
       /\ \A i \in 1..n : t[i] = "_" \/ IsDigit(t[i], unidata)
       /\ t[1] # "_" /\ t[n] # "_"
       /\ \A i \in 1..(n - 1) : ~(t[i] = "_" /\ t[i + 1] = "_")

\* digits without its leading zeros
DropZeros(ds) ==
    LET nz == {i \in 1..Len(ds) : ds[i] # "0"}
    IN IF nz = {} THEN <<"0">>
       ELSE SubSeq(ds, CHOOSE i \in nz : \A j \in nz : i <= j, Len(ds))

\* int(s), for a str that int accepts
IntOf(s, unidata) ==
    LET b == IntBody(s)
        ds == SelectSeq(b.digits, LAMBDA c : c # "_")
        mag == DropZeros([i \in 1..Len(ds) |-> Digits[DigitValue(ds[i], unidata) + 1]])
    IN PyInt(b.neg /\ mag # <<"0">>, mag)

RECURSIVE NatToStr(_)
NatToStr(n) ==
    IF n < 10 THEN <<Digits[n + 1]>> ELSE NatToStr(n \div 10) \o <<Digits[(n % 10) + 1]>>

\* str(n) of a small int (the status code), as an f-string inserts it
IntToStr(n) == IF n < 0 THEN <<"-">> \o NatToStr(0 - n) ELSE NatToStr(n)

\* n in at least w digits, zero-padded (%m, %d, %H, %M, %S)
RECURSIVE ZeroPad(_, _)
ZeroPad(s, w) == IF Len(s) >= w THEN s ELSE ZeroPad(<<"0">> \o s, w)

\* an aware datetime: the instant (seconds since 1970-01-01 UTC, an int) and
\* the zone it is expressed in
DateTime(epoch, zone) == [epoch |-> epoch, zone |-> zone]

\* timezone.utc
UtcZone == [name |-> <<"U", "T", "C">>, offset |-> 0]

\* the zones the process may run in (what astimezone() converts to): name
\* and offset from UTC in seconds
LocalZones ==
    {UtcZone,
     [name |-> <<"C", "E", "T">>, offset |-> 3600],
     [name |-> <<"E", "S", "T">>, offset |-> 0 - 18000]}

\* datetime.MINYEAR, datetime.MAXYEAR
MINYEAR == 1

MAXYEAR == 9999

SecondsPerDay == 86400

\* the digits of the last second of MAXYEAR (253402300799): an epoch of more
\* digits lies outside MINYEAR..MAXYEAR on either side
EpochDigits == 12

\* the digits ds divided by m, digit by digit: quotient and remainder
RECURSIVE LongDiv(_, _, _, _)
LongDiv(ds, m, q, r) ==
    IF ds = <<>> THEN [q |-> q, r |-> r]
    ELSE LET x == r * 10 + AsciiDigitValue(ds[1])
         IN LongDiv(Tail(ds), m, q * 10 + x \div m, x % m)

\* divmod(i, m) of an int of at most EpochDigits digits: rounds down
FloorDivMod(i, m) ==
    LET d == LongDiv(i.digits, m, 0, 0)
    IN IF ~i.neg THEN d
       ELSE IF d.r = 0 THEN [q |-> 0 - d.q, r |-> 0]
       ELSE [q |-> 0 - d.q - 1, r |-> m - d.r]

\* the civil date of a day number counted from 1970-01-01 (proleptic Gregorian)
CivilFromDays(days) ==
    LET z == days + 719468
        era == z \div 146097
        doe == z - era * 146097
        yoe == (doe - doe \div 1460 + doe \div 36524 - doe \div 146096) \div 365
        doy == doe - (365 * yoe + yoe \div 4 - yoe \div 100)
        mp == (5 * doy + 2) \div 153
        d == doy - (153 * mp + 2) \div 5 + 1
        m == IF mp < 10 THEN mp + 3 ELSE mp - 9
        y == yoe + era * 400 + (IF m <= 2 THEN 1 ELSE 0)
    IN [year |-> y, month |-> m, day |-> d]

\* the wall clock of a datetime in its zone: day number and second of the day
WallClock(dt) ==
    LetIn(FloorDivMod(dt.epoch, SecondsPerDay),
          LAMBDA utc :
              LET w == utc.r + dt.zone.offset
              IN [days |-> utc.q + w \div SecondsPerDay, secs |-> w % SecondsPerDay])

\* the datetime exists: its year in its zone is in MINYEAR..MAXYEAR.
\* Otherwise fromtimestamp (ValueError, OSError or OverflowError, by the size
\* of the epoch) or astimezone (OverflowError) raises.
DateTimeOk(dt) ==
    /\ Len(dt.epoch.digits) <= EpochDigits
    /\ LetIn(WallClock(dt), LAMBDA wall : CivilFromDays(wall.days).year \in MINYEAR..MAXYEAR)

\* strftime("%Y-%m-%d %H:%M:%S %Z"); the C library prints %Y without padding
Strftime(dt) ==
    LET P(n, w) == ZeroPad(NatToStr(n), w)
        Date(wall) == LetIn(CivilFromDays(wall.days),
                            LAMBDA date : NatToStr(date.year) \o <<"-">> \o P(date.month, 2)
                                            \o <<"-">> \o P(date.day, 2))
        Time(secs) == P(secs \div 3600, 2) \o <<":">> \o P((secs % 3600) \div 60, 2)
                        \o <<":">> \o P(secs % 60, 2)
    IN LetIn(WallClock(dt),
             LAMBDA wall : Date(wall) \o <<" ">> \o Time(wall.secs) \o <<" ">> \o dt.zone.name)

\* the response headers the functions look up
HeaderNames == {"X-RateLimit-Limit", "X-RateLimit-Remaining", "X-RateLimit-Reset", "Retry-After"}

\* values of the headers that are copied as they are
QuotaValues == {<<>>, <<"0">>, <<"6", "0">>}

\* values of the headers that int() reads: empty, zero, a small number, an
\* epoch of 2023, not a number; then what int() also accepts (a signed zero
\* with a leading zero, an underscore between digits, surrounding whitespace
\* and non-ASCII digits), a separator that strip() removes and int() rejects,
\* a digit that only the later Unicode databases hold,
\* and epochs at the ends of the calendar: in the year 987, in the last hour
\* of the year 9999, and in the year 10000
NumberValues ==
    {<<>>, <<"0">>, <<"6", "0">>,
     <<"1", "7", "0", "0", "0", "0", "0", "0", "0", "0">>,
     <<"a", "b", "c">>,
     <<"-", "0", "0">>,
     <<"1", "_", "0">>,
     <<"\r", "U+0666", "U+FF10", "U+00A0">>,
     <<"6", "U+001C">>,
     <<"1", "U+1E4F2">>,
     <<"-", "3", "1", "0", "0", "0", "0", "0", "0", "0", "0", "0">>,
     <<"2", "5", "3", "4", "0", "2", "2", "9", "7", "2", "0", "0">>,
     <<"2", "5", "3", "4", "0", "2", "3", "0", "0", "8", "0", "0">>}

\* the values a header may have
HeaderValues ==
    [n \in HeaderNames |->
        IF n \in {"X-RateLimit-Reset", "Retry-After"} THEN NumberValues ELSE QuotaValues]

\* the header mappings: any subset of the headers, any values
HeaderMaps ==
    UNION {{h \in [D -> UNION {HeaderValues[n] : n \in HeaderNames}] :
               \A n \in D : h[n] \in HeaderValues[n]} : D \in SUBSET HeaderNames}

\* "name" in headers
HasHeader(headers, name) == name \in DOMAIN headers

\* dict d with d[k] = v added
DictSet(d, k, v) == (k :> v) @@ d

\* _parse_rate_limit_headers without "if reset_epoch:": a zero epoch is kept
ParseRateLimitHeaders_keeps_zero_epoch(headers, zone, unidata) ==
    LET i0 == <<>>
        i1 == IF HasHeader(headers, "X-RateLimit-Limit")
              THEN DictSet(i0, "limit", headers["X-RateLimit-Limit"]) ELSE i0
        i2 == IF HasHeader(headers, "X-RateLimit-Remaining")
              THEN DictSet(i1, "remaining", headers["X-RateLimit-Remaining"]) ELSE i1
        Reset(reset_epoch) ==
            IF TRUE
            THEN IF DateTimeOk(DateTime(reset_epoch, UtcZone))
                      /\ DateTimeOk(DateTime(reset_epoch, zone))
                 THEN [raised |-> FALSE,
                       info |-> DictSet(DictSet(DictSet(i2, "reset_epoch", reset_epoch),
                                                "reset_time", DateTime(reset_epoch, UtcZone)),
                                        "reset_local", DateTime(reset_epoch, zone))]
                 ELSE [raised |-> TRUE, info |-> <<>>]
            ELSE [raised |-> FALSE, info |-> i2]
        r3 == IF HasHeader(headers, "X-RateLimit-Reset")
              THEN IF IntOk(headers["X-RateLimit-Reset"], unidata)
                   THEN LetIn(IntOf(headers["X-RateLimit-Reset"], unidata), Reset)
                   ELSE [raised |-> TRUE, info |-> <<>>]
              ELSE [raised |-> FALSE, info |-> i2]
        RetryAfter(i3) ==
            IF HasHeader(headers, "Retry-After")
            THEN LET retry_after == headers["Retry-After"]
                 IN IF IntOk(retry_after, unidata)
                    THEN DictSet(i3, "retry_after_seconds", IntOf(retry_after, unidata))
                    ELSE DictSet(i3, "retry_after", retry_after)
            ELSE i3
    IN LetIn(r3, LAMBDA r : IF r.raised THEN r
                           ELSE [raised |-> FALSE, info |-> RetryAfter(r.info)])

\* _parse_rate_limit_headers; zone is the local zone of the process.
\* raised: int() of the reset value raised ValueError, or fromtimestamp or
\* astimezone raised for an epoch outside the calendar; the function catches
\* none of them.
ParseRateLimitHeaders(headers, zone, unidata) ==
    LET i0 == <<>>
        i1 == IF HasHeader(headers, "X-RateLimit-Limit")
              THEN DictSet(i0, "limit", headers["X-RateLimit-Limit"]) ELSE i0
        i2 == IF HasHeader(headers, "X-RateLimit-Remaining")
              THEN DictSet(i1, "remaining", headers["X-RateLimit-Remaining"]) ELSE i1
        Reset(reset_epoch) ==
            IF PyIntTruthy(reset_epoch)
            THEN IF DateTimeOk(DateTime(reset_epoch, UtcZone))
                      /\ DateTimeOk(DateTime(reset_epoch, zone))
                 THEN [raised |-> FALSE,
                       info |-> DictSet(DictSet(DictSet(i2, "reset_epoch", reset_epoch),
                                                "reset_time", DateTime(reset_epoch, UtcZone)),
                                        "reset_local", DateTime(reset_epoch, zone))]
                 ELSE [raised |-> TRUE, info |-> <<>>]
            ELSE [raised |-> FALSE, info |-> i2]
        r3 == IF HasHeader(headers, "X-RateLimit-Reset")
              THEN IF IntOk(headers["X-RateLimit-Reset"], unidata)
                   THEN LetIn(IntOf(headers["X-RateLimit-Reset"], unidata), Reset)
                   ELSE [raised |-> TRUE, info |-> <<>>]
              ELSE [raised |-> FALSE, info |-> i2]
        RetryAfter(i3) ==
            IF HasHeader(headers, "Retry-After")
            THEN LET retry_after == headers["Retry-After"]
                 IN IF IntOk(retry_after, unidata)
                    THEN DictSet(i3, "retry_after_seconds", IntOf(retry_after, unidata))
                    ELSE DictSet(i3, "retry_after", retry_after)
            ELSE i3
    IN LetIn(r3, LAMBDA r : IF r.raised THEN r
                           ELSE [raised |-> FALSE, info |-> RetryAfter(r.info)])

\* status codes of rejected requests
StatusCodes == {403, 429, 404, 500}

\* request URLs
Urls == {<<"u", "r", "l">>, <<"h", "t", "t", "p", "s", ":", "/", "/", "x", "/", "4", "0", "3">>}

\* the bullet that starts a fact or a tip ("U+2022" is the bullet glyph)
Bullet == <<" ", " ", "U+2022", " ">>

\* "\n".join(lines)
RECURSIVE Join(_)
Join(lines) ==
    IF lines = <<>> THEN <<>>
    ELSE IF Len(lines) = 1 THEN lines[1]
    ELSE lines[1] \o <<"\n">> \o Join(Tail(lines))

\* the lines with the reset shown from reset_time (UTC) instead of reset_local
DiagnosticLines_shows_utc(status_code, rate_info, url) ==
    LET has(f) == f \in DOMAIN rate_info
        l1 == <<<<"GitHub API returned status ">> \o IntToStr(status_code) \o <<" for ">> \o url,
                <<>>>>
        l2 == Append(l1, <<"[bold]Rate Limit Information:[/bold]">>)
        l3 == IF has("limit")
              THEN Append(l2, Bullet \o <<"Rate Limit: ">> \o rate_info["limit"]
                                \o <<" requests/hour">>)
              ELSE l2
        l4 == IF has("remaining")
              THEN Append(l3, Bullet \o <<"Remaining: ">> \o rate_info["remaining"])
              ELSE l3
        l5 == IF has("reset_local")
              THEN Append(l4, Bullet \o <<"Resets at: ">> \o Strftime(rate_info["reset_time"]))
              ELSE l4
        l6 == IF has("retry_after_seconds")
              THEN Append(l5, Bullet \o <<"Retry after: ">>
                                \o PyIntStr(rate_info["retry_after_seconds"]) \o <<" seconds">>)
              ELSE l5
        l7 == IF DOMAIN rate_info # {} THEN Append(l6, <<>>) ELSE l1
    IN l7 \o <<<<"[bold]Troubleshooting Tips:[/bold]">>,
               Bullet \o <<"If you're on a shared CI or corporate environment, you may be rate-limited.">>,
               Bullet \o <<"Consider using a GitHub token via --github-token or the GH_TOKEN/GITHUB_TOKEN environment variable.">>,
               Bullet \o <<"Authenticated requests have a limit of 5,000/hour vs 60/hour for unauthenticated.">>>>

\* the lines _format_rate_limit_error collects from the parsed rate_info
DiagnosticLines(status_code, rate_info, url) ==
    LET has(f) == f \in DOMAIN rate_info
        l1 == <<<<"GitHub API returned status ">> \o IntToStr(status_code) \o <<" for ">> \o url,
                <<>>>>
        l2 == Append(l1, <<"[bold]Rate Limit Information:[/bold]">>)
        l3 == IF has("limit")
              THEN Append(l2, Bullet \o <<"Rate Limit: ">> \o rate_info["limit"]
                                \o <<" requests/hour">>)
              ELSE l2
        l4 == IF has("remaining")
              THEN Append(l3, Bullet \o <<"Remaining: ">> \o rate_info["remaining"])
              ELSE l3
        l5 == IF has("reset_local")
              THEN Append(l4, Bullet \o <<"Resets at: ">> \o Strftime(rate_info["reset_local"]))
              ELSE l4
        l6 == IF has("retry_after_seconds")
              THEN Append(l5, Bullet \o <<"Retry after: ">>
                                \o PyIntStr(rate_info["retry_after_seconds"]) \o <<" seconds">>)
              ELSE l5
        l7 == IF DOMAIN rate_info # {} THEN Append(l6, <<>>) ELSE l1
    IN l7 \o <<<<"[bold]Troubleshooting Tips:[/bold]">>,
               Bullet \o <<"If you're on a shared CI or corporate environment, you may be rate-limited.">>,
               Bullet \o <<"Consider using a GitHub token via --github-token or the GH_TOKEN/GITHUB_TOKEN environment variable.">>,
               Bullet \o <<"Authenticated requests have a limit of 5,000/hour vs 60/hour for unauthenticated.">>>>

\* _format_rate_limit_error: an exception of the parse leaves it too
FormatRateLimitError(status_code, headers, url, zone, unidata) ==
    LetIn(ParseRateLimitHeaders(headers, zone, unidata),
          LAMBDA parsed :
              IF parsed.raised
              THEN [raised |-> TRUE, text |-> <<>>]
              ELSE [raised |-> FALSE,
                    text |-> Join(DiagnosticLines(status_code, parsed.info, url))])

\* The three functions are called on their own, with no tracker involved.
\* call is the call made: the function, its arguments and environment, and
\* whether it has ended; outcome is whether it raised and what it returned;
\* the tracker's variables keep their initial values.

\* the calls of _github_auth_headers
AuthCalls ==
    [op : {"_github_auth_headers"}, cli_token : CliTokens, GH_TOKEN : GhTokens,
     GITHUB_TOKEN : GithubTokens, ended : {FALSE}]

\* the calls of _parse_rate_limit_headers
ParseCalls ==
    [op : {"_parse_rate_limit_headers"}, headers : HeaderMaps, zone : LocalZones,
     unidata : UnidataVersions, ended : {FALSE}]

\* the calls of _format_rate_limit_error
FormatCalls ==
    [op : {"_format_rate_limit_error"}, status_code : StatusCodes, headers : HeaderMaps,
     url : Urls, zone : LocalZones, unidata : UnidataVersions, ended : {FALSE}]

FetchInit ==
    /\ title \in Titles
    /\ steps = <<>>
    /\ refresh_cb = None
    /\ call \in AuthCalls \cup ParseCalls \cup FormatCalls
    /\ prev = None
    /\ outcome = Outcome(FALSE, <<>>)
    /\ cb_seen = <<>>

github_auth_headers ==
    /\ call.op = "_github_auth_headers" /\ ~call.ended
    /\ call' = [call EXCEPT !.ended = TRUE]
    /\ outcome' = Outcome(FALSE, <<GithubAuthHeaders(call.cli_token, call.GH_TOKEN,
                                                      call.GITHUB_TOKEN)>>)
    /\ UNCHANGED <<title, steps, refresh_cb, prev, cb_seen>>

parse_rate_limit_headers ==
    /\ call.op = "_parse_rate_limit_headers" /\ ~call.ended
    /\ LET r == ParseRateLimitHeaders(call.headers, call.zone, call.unidata)
       IN outcome' = Outcome(r.raised, IF r.raised THEN <<>> ELSE <<r.info>>)
    /\ call' = [call EXCEPT !.ended = TRUE]
    /\ UNCHANGED <<title, steps, refresh_cb, prev, cb_seen>>

format_rate_limit_error ==
    /\ call.op = "_format_rate_limit_error" /\ ~call.ended
    /\ LET r == FormatRateLimitError(call.status_code, call.headers, call.url, call.zone,
                                     call.unidata)
       IN outcome' = Outcome(r.raised, IF r.raised THEN <<>> ELSE <<r.text>>)
    /\ call' = [call EXCEPT !.ended = TRUE]
    /\ UNCHANGED <<title, steps, refresh_cb, prev, cb_seen>>

FetchNext ==
    \/ github_auth_headers
    \/ parse_rate_limit_headers
    \/ format_rate_limit_error

FetchSpec == FetchInit /\ [][FetchNext]_vars

-----------------------------------------------------------------------------
(* Shorthands for the claims                                               *)

\* the last call was start, complete, error or skip
IsTransition(c) == c.op \in Transitions

\* the step with this key
StepOf(st, key) == st[FirstIndex(st, key)]

\* the callback was invoked during the last call and this is what it did
CallbackDid == IF cb_seen = <<>> THEN "not_invoked" ELSE cb_seen[1].did

-----------------------------------------------------------------------------
(* C1 *)

\* C1: after any sequence of add, start, complete, error, skip,
\* attach_refresh and render calls, no two steps of the tracker have the
\* same key.
C1_UniqueKeys ==
    \A i, j \in 1..Len(steps) : i # j => steps[i].key # steps[j].key

\* add was called again on a key that a transition call had already moved
\* out of pending, while another step exists too
C1_Witness ==
    /\ call.op = "add"
    /\ Len(steps) = 2
    /\ prev \in Statuses \ {"pending"}

-----------------------------------------------------------------------------
(* C2 *)

\* C2: add(key, label) on a key that is already present, whatever the label
\* and however the step was created, leaves the whole step sequence as it
\* was: same length, same order, same label, status and detail of every step.
C2_AddExistingIsNoOp ==
    [][(call'.op = "add" /\ HasKey(steps, call'.key)) => steps' = steps]_vars

\* add(k, label) was called on a step that is done, carries a detail and has
\* a label other than the one passed
C2_Witness ==
    /\ call.op = "add"
    /\ prev = "done"
    /\ StepOf(steps, call.key).status = "done"
    /\ StepOf(steps, call.key).detail # <<>>
    /\ StepOf(steps, call.key).label # call.arg
    /\ Cardinality({i \in 1..Len(steps) : steps[i].key = call.key}) = 1

-----------------------------------------------------------------------------
(* C3 *)

\* C3: start, complete, error and skip on a key that is not in
\* the tracker return normally and append exactly one step with that key,
\* label equal to the key, the requested status and the passed detail; the
\* steps that existed are unchanged.
C3_UnknownKeyNeverFails ==
    [][(IsTransition(call') /\ ~HasKey(steps, call'.key)) =>
          /\ ~outcome'.raised
          /\ steps' = Append(steps, [key |-> call'.key, label |-> call'.key,
                                     status |-> TransitionStatus[call'.op],
                                     detail |-> call'.arg])]_vars

-----------------------------------------------------------------------------
(* C4 *)

\* C4: no transition is rejected: on an existing step, whatever its current
\* status, start, complete, error and skip set the status to running, done,
\* error and skipped.
C4_NoTransitionRejected ==
    [][(IsTransition(call') /\ HasKey(steps, call'.key)) =>
          /\ HasKey(steps', call'.key)
          /\ StepOf(steps', call'.key).status = TransitionStatus[call'.op]]_vars

\* start was accepted on a step that was done
C4_Witness ==
    /\ call.op = "start"
    /\ prev = "done"
    /\ StepOf(steps, call.key).status = "running"

-----------------------------------------------------------------------------
(* C5 *)

\* C5: a transition call on an existing key replaces the stored detail by a
\* non-empty detail argument and keeps the stored detail when the argument
\* is empty; the status is updated in both cases.
C5_DetailReplacedOnlyIfNonEmpty ==
    [][(IsTransition(call') /\ HasKey(steps, call'.key)) =>
          LET i == FirstIndex(steps, call'.key)
          IN /\ Len(steps') = Len(steps)
             /\ steps'[i].detail =
                   (IF call'.arg # <<>> THEN call'.arg ELSE steps[i].detail)
             /\ steps'[i].status = TransitionStatus[call'.op]]_vars

\* complete(k) with the detail omitted on a running step that carries a
\* detail: the step is done and still carries it
C5_Witness ==
    /\ call.op = "complete"
    /\ call.arg = <<>>
    /\ prev = "running"
    /\ StepOf(steps, call.key).status = "done"
    /\ StepOf(steps, call.key).detail # <<>>

-----------------------------------------------------------------------------
(* C6 *)

\* the step list the last call would have produced with no callback attached
WithoutCallback(st, c) ==
    IF c.op = "add"
    THEN AddCall(st, None, c.key, c.arg, "returns").steps
    ELSE UpdateCall(st, None, c.key, TransitionStatus[c.op], c.arg, "returns").steps

\* the call is add, start, complete, error or skip
IsMutator(c) == c.op = "add" \/ IsTransition(c)

\* C6: if the callback raises any exception during add, start,
\* complete, error or skip, the exception is not propagated, the call
\* returns normally and the step sequence is the one the same call produces
\* with no callback attached.
C6_AnyExceptionSwallowed ==
    [][(IsMutator(call') /\ cb_seen' # <<>> /\ cb_seen'[1].did # "returns") =>
          /\ ~outcome'.raised
          /\ steps' = WithoutCallback(steps, call')]_vars

-----------------------------------------------------------------------------
(* C7 *)

\* C7: while a callback is attached, every start, complete, error or skip
\* call, on a known or an unknown key, invokes it exactly once, and the
\* callback observes the step list that already has the new status and
\* detail.
C7_CallbackAfterMutation ==
    [][(IsTransition(call') /\ refresh_cb # None) =>
          /\ Len(cb_seen') = 1
          /\ cb_seen'[1].saw = steps'
          /\ HasKey(cb_seen'[1].saw, call'.key)
          /\ StepOf(cb_seen'[1].saw, call'.key).status = TransitionStatus[call'.op]
          /\ call'.arg # <<>> =>
                StepOf(cb_seen'[1].saw, call'.key).detail = call'.arg]_vars

\* skip(k, detail) on a pending step, callback attached: it was invoked once
\* and saw the step skipped with the new detail
C7_Witness ==
    /\ call.op = "skip"
    /\ prev = "pending"
    /\ call.arg # <<>>
    /\ refresh_cb # None
    /\ Len(cb_seen) = 1
    /\ StepOf(cb_seen[1].saw, call.key).status = "skipped"
    /\ StepOf(cb_seen[1].saw, call.key).detail = call.arg

-----------------------------------------------------------------------------
(* C8 *)

\* C8 as stated: every add made while a callback is attached invokes the
\* callback, on the up-to-date step list.
C8_EveryAddRefreshes ==
    [][(call'.op = "add" /\ refresh_cb # None) =>
          /\ Len(cb_seen') = 1
          /\ cb_seen'[1].saw = steps']_vars

\* C8 amended: an add of a key that is not yet present, made while a
\* callback is attached, invokes the callback once, after the step was
\* appended; an add of a key that is already present does not invoke it.
C8_AddRefreshesIffNew ==
    [][(call'.op = "add" /\ refresh_cb # None) =>
          IF HasKey(steps, call'.key)
          THEN cb_seen' = <<>>
          ELSE /\ Len(cb_seen') = 1
               /\ cb_seen'[1].saw = steps'
               /\ HasKey(cb_seen'[1].saw, call'.key)]_vars

\* add of a new key as second step with a callback attached: the callback
\* saw both steps
C8_Witness ==
    /\ call.op = "add"
    /\ prev = "absent"
    /\ refresh_cb # None
    /\ Len(cb_seen) = 1
    /\ Len(cb_seen[1].saw) = 2
    /\ cb_seen[1].saw[2].key = call.key

-----------------------------------------------------------------------------
(* C9 *)

\* C9: render is a pure projection: it changes neither the step sequence
\* nor the attached callback, does not invoke the callback, and returns the
\* projection of the steps it found; so a render that follows a render
\* returns the same output.
C9_RenderIsPure ==
    [][call'.op = "render" =>
          /\ steps' = steps
          /\ title' = title
          /\ refresh_cb' = refresh_cb
          /\ cb_seen' = <<>>
          /\ ~outcome'.raised
          /\ outcome'.value = <<Render(title, steps)>>
          /\ call.op = "render" => outcome'.value = outcome.value]_vars

\* render returned a tree of two lines while a callback is attached and a
\* step carries a detail that render strips
C9_Witness ==
    /\ call.op = "render"
    /\ refresh_cb # None
    /\ cb_seen = <<>>
    /\ Len(steps) = 2
    /\ \E i \in 1..2 : steps[i].detail # <<>> /\ Strip(steps[i].detail) # steps[i].detail
    /\ Len(outcome.value[1].children) = 2

-----------------------------------------------------------------------------
(* C10 *)

\* s is a prefix of t
IsPrefix(s, t) == Len(s) <= Len(t) /\ SubSeq(t, 1, Len(s)) = s

\* the label a rendered line shows: what follows the symbol, the blank and
\* the opening colour tag
LabelShown(line, n) == SubSeq(line, 6, 5 + n)

\* C10: steps are never deleted or reordered: over every call the sequence
\* of keys before it is a prefix of the sequence after it, which is at most
\* one key longer; and render emits one line per step, in that order.
C10_InsertionOrderKept ==
    [][/\ IsPrefix(KeysOf(steps), KeysOf(steps'))
       /\ Len(steps') <= Len(steps) + 1
       /\ call'.op = "render" =>
             LET lines == outcome'.value[1].children
             IN /\ Len(lines) = Len(steps')
                /\ \A i \in 1..Len(lines) :
                      /\ SubSeq(lines[i], 1, 3) = Symbol(steps'[i].status)
                      /\ LabelShown(lines[i], Len(steps'[i].label)) = steps'[i].label]_vars

\* a transition call on the first of two steps left it first
C10_Witness ==
    /\ IsTransition(call)
    /\ prev \in Statuses
    /\ Len(steps) = 2
    /\ steps[1].key = call.key
    /\ steps[1].key = <<"b">>
    /\ steps[2].key = <<"a">>

-----------------------------------------------------------------------------
(* C17 *)

\* C17: every step's status is one of pending, running, done, error,
\* skipped; a step is pending after a call only if it was pending before and
\* the call was no transition on its key, or if the call is the add that
\* created it; so a step that has left pending never returns to it, not even
\* by a later add of its key.
C17_PendingOnlyFromAdd ==
    [][/\ \A i \in 1..Len(steps') : steps'[i].status \in Statuses
       /\ \A i \in 1..Len(steps) :
             steps[i].status # "pending" => StatusOf(steps', steps[i].key) \in Statuses \ {"pending"}
       /\ \A i \in 1..Len(steps') :
             steps'[i].status = "pending" =>
                \/ /\ i <= Len(steps)
                   /\ steps[i].status = "pending"
                   /\ ~(IsTransition(call') /\ call'.key = steps'[i].key)
                \/ /\ i = Len(steps) + 1
                   /\ call'.op = "add"
                   /\ call'.key = steps'[i].key]_vars

\* add was called on the key of a step in status error, next to a step that
\* is still pending: the step is still in error
C17_Witness ==
    /\ call.op = "add"
    /\ prev = "error"
    /\ StatusOf(steps, call.key) = "error"
    /\ \E i \in 1..Len(steps) : steps[i].status = "pending"

-----------------------------------------------------------------------------
(* C18 *)

\* C18: a transition call on key k changes at most the status and the detail
\* of the step with key k: the key and label of every step that existed, all
\* of every other step, and the attached callback are unchanged.
C18_TransitionFrame ==
    [][IsTransition(call') =>
          /\ refresh_cb' = refresh_cb
          /\ title' = title
          /\ Len(steps') >= Len(steps)
          /\ \A i \in 1..Len(steps) :
                /\ steps'[i].key = steps[i].key
                /\ steps'[i].label = steps[i].label
                /\ steps[i].key # call'.key => steps'[i] = steps[i]]_vars

\* error(k, detail) on the second of two steps, which add had labelled, with
\* a callback attached and the first step done with a detail
C18_Witness ==
    /\ call.op = "error"
    /\ call.arg # <<>>
    /\ prev \in Statuses
    /\ refresh_cb # None
    /\ Len(steps) = 2
    /\ steps[2].key = call.key
    /\ steps[2].label # call.key
    /\ steps[2].status = "error"
    /\ steps[1].status = "done"
    /\ steps[1].detail # <<>>

-----------------------------------------------------------------------------
(* Shorthands for the claims about the module-level functions              *)

\* the call of this function has ended
Ended(op) == call.op = op /\ call.ended

\* the call of this function has returned a value
Returned(op) == Ended(op) /\ ~outcome.raised

\* the value the call returned
Result == outcome.value[1]

\* sub occurs in s
Contains(s, sub) ==
    \E i \in 0..(Len(s) - Len(sub)) : SubSeq(s, i + 1, i + Len(sub)) = sub

\* s starts with pre
StartsWith(s, pre) == Len(pre) <= Len(s) /\ SubSeq(s, 1, Len(pre)) = pre

\* the lines of a text
RECURSIVE SplitLines(_)
SplitLines(text) ==
    IF \E i \in 1..Len(text) : text[i] = "\n"
    THEN LET i == CHOOSE k \in 1..Len(text) :
                     text[k] = "\n" /\ \A j \in 1..(k - 1) : text[j] # "\n"
         IN <<SubSeq(text, 1, i - 1)>> \o SplitLines(SubSeq(text, i + 1, Len(text)))
    ELSE <<text>>

\* some line of the text is this one
HasLine(text, line) == \E i \in 1..Len(SplitLines(text)) : SplitLines(text)[i] = line

\* the header is present and int() accepts its value
NumericHeader(headers, name) ==
    HasHeader(headers, name) /\ IntOk(headers[name], call.unidata)

\* the header is present and int() rejects its value
NonNumericHeader(headers, name) ==
    HasHeader(headers, name) /\ ~IntOk(headers[name], call.unidata)

RateLimitHeading == <<"[bold]Rate Limit Information:[/bold]">>

-----------------------------------------------------------------------------
(* C11 *)

\* the sources of the token, in the order of their precedence
TokenSources == <<call.cli_token, call.GH_TOKEN, call.GITHUB_TOKEN>>

\* the sources that supply a token that is non-empty after trimming
SupplyingSources ==
    {i \in 1..3 : TokenSources[i] # Absent /\ Strip(TokenSources[i][1]) # <<>>}

\* C11: for every combination of the three sources (absent, empty,
\* whitespace-only, a token), the result of auth_headers is
\* {Authorization: Bearer t} with t the trimmed token of the first source, in
\* the order explicit argument, GH_TOKEN, GITHUB_TOKEN, that supplies a
\* non-empty token after trimming, and it has no Authorization entry exactly
\* when no source supplies one.
C11_FirstSupplyingSourceWins ==
    Returned("_github_auth_headers") =>
        IF SupplyingSources = {}
        THEN "Authorization" \notin DOMAIN Result
        ELSE LET first == CHOOSE i \in SupplyingSources : \A j \in SupplyingSources : i <= j
             IN Result = [k \in {"Authorization"} |->
                             <<"Bearer ">> \o Strip(TokenSources[first][1])]

-----------------------------------------------------------------------------
(* C12 *)

\* C12: the result of parse has a field only if its header is present: no
\* limit without X-RateLimit-Limit, no remaining without
\* X-RateLimit-Remaining, no reset_epoch, reset_time or reset_local without
\* X-RateLimit-Reset, no retry_after_seconds or retry_after without
\* Retry-After; and with X-RateLimit-Reset equal to 0 the reset fields are
\* omitted too.
C12_NoFieldWithoutHeader ==
    Returned("_parse_rate_limit_headers") =>
        LET info == DOMAIN Result
            h == call.headers
            resetFields == {"reset_epoch", "reset_time", "reset_local"}
        IN /\ "limit" \in info => HasHeader(h, "X-RateLimit-Limit")
           /\ "remaining" \in info => HasHeader(h, "X-RateLimit-Remaining")
           /\ info \cap resetFields # {} => HasHeader(h, "X-RateLimit-Reset")
           /\ info \cap {"retry_after_seconds", "retry_after"} # {} => HasHeader(h, "Retry-After")
           /\ (NumericHeader(h, "X-RateLimit-Reset") /\ ~PyIntTruthy(IntOf(h["X-RateLimit-Reset"], call.unidata)))
                 => info \cap resetFields = {}
           /\ info \subseteq {"limit", "remaining", "retry_after_seconds", "retry_after"}
                               \cup resetFields

\* parse returned for X-RateLimit-Remaining together with X-RateLimit-Reset: 0
\* and the result holds remaining alone
C12_Witness ==
    /\ Returned("_parse_rate_limit_headers")
    /\ DOMAIN call.headers = {"X-RateLimit-Remaining", "X-RateLimit-Reset"}
    /\ call.headers["X-RateLimit-Reset"] = <<"0">>
    /\ DOMAIN Result = {"remaining"}

-----------------------------------------------------------------------------
(* C13 *)

\* C13: a non-numeric Retry-After or a non-numeric X-RateLimit-Reset does not
\* fail the parse: it returns, keeps the raw string of the anomalous header
\* and still returns every other field whose header is present.
C13_AnomalyDoesNotFailParse ==
    (/\ Ended("_parse_rate_limit_headers")
     /\ \/ NonNumericHeader(call.headers, "Retry-After")
        \/ NonNumericHeader(call.headers, "X-RateLimit-Reset")) =>
        /\ ~outcome.raised
        /\ LET h == call.headers
               raws == {Result[f] : f \in DOMAIN Result \ {"reset_epoch", "reset_time",
                                                           "reset_local", "retry_after_seconds"}}
           IN /\ NonNumericHeader(h, "Retry-After") => h["Retry-After"] \in raws
              /\ NonNumericHeader(h, "X-RateLimit-Reset") => h["X-RateLimit-Reset"] \in raws
              /\ HasHeader(h, "X-RateLimit-Limit") => "limit" \in DOMAIN Result
              /\ HasHeader(h, "X-RateLimit-Remaining") => "remaining" \in DOMAIN Result

-----------------------------------------------------------------------------
(* C14 *)

\* C14: format_diagnostic never raises: for every status code, URL and header
\* mapping it returns a diagnostic string.
C14_FormatNeverRaises ==
    Ended("_format_rate_limit_error") => ~outcome.raised

-----------------------------------------------------------------------------
(* C15 *)

\* C15: every diagnostic format_diagnostic returns contains the status code,
\* the URL and the troubleshooting section; with no rate-limit header the
\* rate-limit section is omitted; with X-RateLimit-Remaining 0 and a non-zero
\* epoch in X-RateLimit-Reset it has a line with "Remaining: 0" and a line
\* with the reset time formatted in local time.
C15_DiagnosticContents ==
    Returned("_format_rate_limit_error") =>
        LET h == call.headers
            lines == SplitLines(Result)
        IN /\ Contains(lines[1], IntToStr(call.status_code))
           /\ Contains(lines[1], call.url)
           /\ HasLine(Result, <<"[bold]Troubleshooting Tips:[/bold]">>)
           /\ \A i \in 1..3 : StartsWith(lines[Len(lines) - 3 + i], Bullet)
           /\ lines[Len(lines) - 3] = <<"[bold]Troubleshooting Tips:[/bold]">>
           /\ DOMAIN h = {} => /\ ~HasLine(Result, RateLimitHeading)
                               /\ Len(lines) = 6
           /\ (/\ HasHeader(h, "X-RateLimit-Remaining")
               /\ h["X-RateLimit-Remaining"] = <<"0">>
               /\ NumericHeader(h, "X-RateLimit-Reset")
               /\ PyIntTruthy(IntOf(h["X-RateLimit-Reset"], call.unidata))) =>
                 /\ HasLine(Result, Bullet \o <<"Remaining: ", "0">>)
                 /\ HasLine(Result, Bullet \o <<"Resets at: ">>
                              \o Strftime(DateTime(IntOf(h["X-RateLimit-Reset"], call.unidata), call.zone)))

\* the diagnostic of a 403 with Remaining 0 and Reset 1700000000, formatted
\* in a zone one hour east of UTC
C15_Witness ==
    /\ Returned("_format_rate_limit_error")
    /\ call.status_code = 403
    /\ call.zone.offset = 3600
    /\ DOMAIN call.headers = {"X-RateLimit-Remaining", "X-RateLimit-Reset"}
    /\ call.headers["X-RateLimit-Remaining"] = <<"0">>
    /\ HasLine(Result, Bullet \o <<"Remaining: ", "0">>)
    /\ HasLine(Result, Bullet \o <<"Resets at: ",
                  "2", "0", "2", "3", "-", "1", "1", "-", "1", "4", " ",
                  "2", "3", ":", "1", "3", ":", "2", "0", " ", "C", "E", "T">>)

-----------------------------------------------------------------------------
(* C16 *)

\* the generic diagnostic of the claim
GenericDiagnostic(n) == <<"request failed with status ">> \o IntToStr(n)

\* C16: the rate-limit diagnostic is produced exactly when the status is 403
\* or 429 and rate-limit headers are present; any other rejected response
\* gets the generic "request failed with status N" diagnostic.
C16_ClassifiedByStatusAndHeaders ==
    Returned("_format_rate_limit_error") =>
        IF call.status_code \in {403, 429} /\ DOMAIN call.headers # {}
        THEN HasLine(Result, RateLimitHeading)
        ELSE /\ Contains(Result, GenericDiagnostic(call.status_code))
             /\ ~HasLine(Result, RateLimitHeading)

-----------------------------------------------------------------------------
(* C19 *)

\* the retry-after value as parse returns it: the number, or the raw string
RetryAfterShown(h) ==
    IF IntOk(h["Retry-After"], call.unidata)
    THEN PyIntStr(IntOf(h["Retry-After"], call.unidata)) ELSE h["Retry-After"]

\* C19: whenever the diagnostic has the "Rate Limit Information" heading, a
\* fact line follows it, and every retry-after value parse returned, numeric
\* or raw, is shown in that section.
C19_SectionShowsParsedFacts ==
    Returned("_format_rate_limit_error") =>
        LET h == call.headers
            lines == SplitLines(Result)
        IN /\ \A i \in 1..Len(lines) :
                 lines[i] = RateLimitHeading =>
                    i < Len(lines) /\ StartsWith(lines[i + 1], Bullet)
           /\ HasHeader(h, "Retry-After") =>
                 \E i \in 1..Len(lines) :
                    StartsWith(lines[i], Bullet \o <<"Retry after: ">> \o RetryAfterShown(h))

====
